---- MODULE Spec2Model ----
(***************************************************************************)
(* A model of src/src/lib.rs: a fixed-size thread pool.  One caller thread *)
(* constructs the pool (ThreadPool::new), submits closures (execute) and   *)
(* drops it (Drop::drop); `count` worker threads run the loop of           *)
(* Worker::new against one mpsc channel whose Receiver sits in an          *)
(* Arc<Mutex<..>>.                                                         *)
(***************************************************************************)
EXTENDS Integers, Sequences, FiniteSets

\* Largest `count` handed to ThreadPool::new.
MaxWorkers == 3

\* Largest number of closures handed to execute.
MaxTasks == 3

\* Mutex<Receiver>: holder 0 means unlocked.
Unlocked == 0

\* Message::Terminate (lib.rs:21); Message::Work(f) is the positive id of f.
Terminate == 0

VARIABLES
  callerPc,   \* where the thread that owns the ThreadPool is
  count,      \* the argument of ThreadPool::new; workers.len() afterwards
  thread,     \* Worker.thread of every worker: "Some" or "None"
  wpc,        \* where every worker thread is in the loop of Worker::new
  lock,       \* the worker holding the MutexGuard, or Unlocked
  poisoned,   \* the Mutex's poison flag
  queue,      \* the Messages in the mpsc channel, oldest first
  cur,        \* the closure each worker is calling (0: none)
  sender,     \* ThreadPool.sender: "none", "open" or "dropped"
  submitted,  \* closures handed to execute so far
  panicking,  \* the submitted closures that panic when called
  runs,       \* how many times each closure has been called
  finished,   \* the closures whose call returned
  counter,    \* the shared counter of tests::thread_spawning
  sent,       \* Terminate messages sent by drop
  joinIdx     \* index of the worker the second loop of drop is at

vars == <<callerPc, count, thread, wpc, lock, poisoned, queue, cur, sender,
          submitted, panicking, runs, finished, counter, sent, joinIdx>>

callerVars == <<callerPc, count, thread, sender, submitted, panicking, sent, joinIdx>>

workerVars == <<wpc, lock, poisoned, cur, runs, finished, counter>>

Workers == 1..count

Tasks == 1..MaxTasks

\* A worker thread that has not left its closure still owns its clone of the Arc.
Alive(w) == wpc[w] \notin {"terminated", "panicked"}

\* The Receiver is freed with the last clone of the Arc (lib.rs:50,54,96): send
\* fails once no worker thread is left.
ReceiverAlive == \E w \in Workers : Alive(w)

Init ==
  /\ callerPc = "start"
  /\ count = 0
  /\ thread = << >>
  /\ wpc = << >>
  /\ lock = Unlocked
  /\ poisoned = FALSE
  /\ queue = << >>
  /\ cur = << >>
  /\ sender = "none"
  /\ submitted = 0
  /\ panicking = {}
  /\ runs = [t \in Tasks |-> 0]
  /\ finished = {}
  /\ counter = 0
  /\ sent = 0
  /\ joinIdx = 1

\* A constructor without the assertion: count = 0 yields a pool of no workers.
ThreadPool_new_unchecked(n) ==
  /\ callerPc = "start"
  /\ callerPc' = "ready"
  /\ count' = n
  /\ sender' = "open"
  /\ thread' = [w \in 1..n |-> "Some"]
  /\ wpc' = [w \in 1..n |-> "loop"]
  /\ cur' = [w \in 1..n |-> 0]
  /\ UNCHANGED <<lock, poisoned, queue, submitted, panicking, runs, finished,
                 counter, sent, joinIdx>>

\* ThreadPool::new(n): assert!(count > 0) panics before anything is created;
\* otherwise the channel is made and n workers are spawned into the loop.
ThreadPool_new(n) ==
  /\ callerPc = "start"
  /\ IF n > 0
       THEN /\ callerPc' = "ready"
            /\ count' = n
            /\ sender' = "open"
            /\ thread' = [w \in 1..n |-> "Some"]
            /\ wpc' = [w \in 1..n |-> "loop"]
            /\ cur' = [w \in 1..n |-> 0]
       ELSE /\ callerPc' = "new_panicked"
            /\ UNCHANGED <<count, sender, thread, wpc, cur>>
  /\ UNCHANGED <<lock, poisoned, queue, submitted, panicking, runs, finished,
                 counter, sent, joinIdx>>

\* An execute that can still be called while drop is sending its Terminates.
ThreadPool_execute_during_drop(p) ==
  /\ callerPc \in {"ready", "drop_send"}
  /\ submitted < MaxTasks
  /\ ReceiverAlive
  /\ submitted' = submitted + 1
  /\ queue' = Append(queue, submitted + 1)
  /\ panicking' = IF p THEN panicking \cup {submitted + 1} ELSE panicking
  /\ UNCHANGED <<callerPc, count, thread, sender, sent, joinIdx>>
  /\ UNCHANGED workerVars

\* execute(func): sender.send(Message::Work(..)).unwrap(); p says whether the
\* closure panics when it is called.
ThreadPool_execute(p) ==
  /\ callerPc = "ready"
  /\ submitted < MaxTasks
  /\ IF ReceiverAlive
       THEN /\ submitted' = submitted + 1
            /\ queue' = Append(queue, submitted + 1)
            /\ panicking' = IF p THEN panicking \cup {submitted + 1} ELSE panicking
            /\ callerPc' = "ready"
       ELSE /\ callerPc' = "execute_panicked"
            /\ UNCHANGED <<submitted, queue, panicking>>
  /\ UNCHANGED <<count, thread, sender, sent, joinIdx>>
  /\ UNCHANGED workerVars

\* The ThreadPool goes out of scope: Drop::drop is entered.
Drop_begin ==
  /\ callerPc = "ready"
  /\ callerPc' = "drop_send"
  /\ UNCHANGED <<count, thread, sender, submitted, panicking, sent, joinIdx, queue>>
  /\ UNCHANGED workerVars

\* A first loop that runs once more than there are workers.
Drop_send_one_more ==
  /\ callerPc = "drop_send"
  /\ sent <= count
  /\ ReceiverAlive
  /\ queue' = Append(queue, Terminate)
  /\ sent' = sent + 1
  /\ callerPc' = IF sent = count THEN "drop_join" ELSE "drop_send"
  /\ UNCHANGED <<count, thread, sender, submitted, panicking, joinIdx>>
  /\ UNCHANGED workerVars

\* A first loop that puts its Terminate in front of the waiting Messages.
Drop_send_front ==
  /\ callerPc = "drop_send"
  /\ sent < count
  /\ ReceiverAlive
  /\ queue' = <<Terminate>> \o queue
  /\ sent' = sent + 1
  /\ callerPc' = IF sent + 1 = count THEN "drop_join" ELSE "drop_send"
  /\ UNCHANGED <<count, thread, sender, submitted, panicking, joinIdx>>
  /\ UNCHANGED workerVars

\* One iteration of the first loop of drop: send(Message::Terminate).unwrap().
Drop_send ==
  /\ callerPc = "drop_send"
  /\ sent < count
  /\ IF ReceiverAlive
       THEN /\ queue' = Append(queue, Terminate)
            /\ sent' = sent + 1
            /\ callerPc' = IF sent + 1 = count THEN "drop_join" ELSE "drop_send"
            /\ UNCHANGED sender
       ELSE /\ callerPc' = "drop_panicked"
            /\ sender' = "dropped"
            /\ UNCHANGED <<queue, sent>>
  /\ UNCHANGED <<count, thread, submitted, panicking, joinIdx>>
  /\ UNCHANGED workerVars

\* A join that does not wait for the thread.
JoinNoWait(w) == TRUE

\* thread.join() returns once the worker thread has ended.
JoinReturns(w) == ~Alive(w)

\* One iteration of the second loop of drop: worker.thread.take(), then
\* join().unwrap(), which panics when the worker thread panicked.  After the last
\* iteration drop returns and the fields, the Sender among them, are dropped.
Drop_join ==
  /\ callerPc = "drop_join"
  /\ joinIdx <= count
  /\ IF thread[joinIdx] = "Some"
       THEN /\ JoinReturns(joinIdx)
            /\ thread' = [thread EXCEPT ![joinIdx] = "None"]
            /\ IF wpc[joinIdx] = "panicked"
                 THEN /\ callerPc' = "drop_panicked"
                      /\ sender' = "dropped"
                      /\ UNCHANGED joinIdx
                 ELSE /\ joinIdx' = joinIdx + 1
                      /\ callerPc' = IF joinIdx = count THEN "done" ELSE "drop_join"
                      /\ sender' = IF joinIdx = count THEN "dropped" ELSE sender
       ELSE /\ joinIdx' = joinIdx + 1
            /\ callerPc' = IF joinIdx = count THEN "done" ELSE "drop_join"
            /\ sender' = IF joinIdx = count THEN "dropped" ELSE sender
            /\ UNCHANGED thread
  /\ UNCHANGED <<count, submitted, panicking, sent, queue>>
  /\ UNCHANGED workerVars

\* A try_lock that ignores the holder.
TryLockIgnoresHolder(w) == ~poisoned

\* receiver.try_lock() is Ok only when the Mutex is neither held nor poisoned;
\* on Err the loop comes round again with nothing changed.
TryLockOk(w) == lock = Unlocked /\ ~poisoned

Worker_try_lock(w) ==
  /\ wpc[w] = "loop"
  /\ TryLockOk(w)
  /\ lock' = w
  /\ wpc' = [wpc EXCEPT ![w] = "recv"]
  /\ UNCHANGED <<poisoned, queue, cur, runs, finished, counter>>
  /\ UNCHANGED callerVars

\* A recv that also discards the Message behind the one it hands out.
RecvDropsNext(q) == IF Len(q) >= 2 THEN Tail(Tail(q)) ELSE Tail(q)

\* A recv that hands out the oldest Message and leaves it in the channel.
RecvLeavesMessage(q) == q

\* What recv leaves in the channel.
AfterRecv(q) == Tail(q)

\* message.recv() under the guard: blocks while the channel is empty and the
\* Sender exists, then takes the oldest Message; Work(x) goes on to x.call(),
\* Terminate to break.  With the channel empty and the Sender gone recv is Err:
\* the `if let` does nothing, the guard is dropped and the loop comes round.
Worker_recv(w) ==
  /\ wpc[w] = "recv"
  /\ IF queue # << >>
       THEN /\ queue' = AfterRecv(queue)
            /\ IF Head(queue) = Terminate
                 THEN /\ wpc' = [wpc EXCEPT ![w] = "break"]
                      /\ UNCHANGED <<cur, runs>>
                 ELSE /\ wpc' = [wpc EXCEPT ![w] = "call"]
                      /\ cur' = [cur EXCEPT ![w] = Head(queue)]
                      /\ runs' = [runs EXCEPT ![Head(queue)] = @ + 1]
            /\ UNCHANGED lock
       ELSE /\ sender = "dropped"
            /\ lock' = Unlocked
            /\ wpc' = [wpc EXCEPT ![w] = "loop"]
            /\ UNCHANGED <<queue, cur, runs>>
  /\ UNCHANGED <<poisoned, finished, counter>>
  /\ UNCHANGED callerVars

\* A call after which the guard is not dropped.
Worker_call_keeps_lock(w) ==
  /\ wpc[w] = "call"
  /\ cur[w] \notin panicking
  /\ finished' = finished \cup {cur[w]}
  /\ counter' = counter + 1
  /\ cur' = [cur EXCEPT ![w] = 0]
  /\ wpc' = [wpc EXCEPT ![w] = "loop"]
  /\ UNCHANGED <<lock, poisoned, queue, runs>>
  /\ UNCHANGED callerVars

\* A worker that goes back to the loop before the closure has run to its end.
Worker_call_abandons(w) ==
  /\ wpc[w] = "call"
  /\ cur[w] \notin panicking
  /\ cur' = [cur EXCEPT ![w] = 0]
  /\ lock' = Unlocked
  /\ wpc' = [wpc EXCEPT ![w] = "loop"]
  /\ UNCHANGED <<poisoned, queue, runs, finished, counter>>
  /\ UNCHANGED callerVars

\* x.call() returns: the closure has added 1 to the counter; the guard is dropped
\* at the end of the `if let` block and the loop comes round.
Worker_call_returns(w) ==
  /\ wpc[w] = "call"
  /\ cur[w] \notin panicking
  /\ finished' = finished \cup {cur[w]}
  /\ counter' = counter + 1
  /\ cur' = [cur EXCEPT ![w] = 0]
  /\ lock' = Unlocked
  /\ wpc' = [wpc EXCEPT ![w] = "loop"]
  /\ UNCHANGED <<poisoned, queue, runs>>
  /\ UNCHANGED callerVars

\* x.call() panics: unwinding drops the guard, which poisons the Mutex, and the
\* worker thread ends.
Worker_call_panics(w) ==
  /\ wpc[w] = "call"
  /\ cur[w] \in panicking
  /\ cur' = [cur EXCEPT ![w] = 0]
  /\ lock' = Unlocked
  /\ poisoned' = TRUE
  /\ wpc' = [wpc EXCEPT ![w] = "panicked"]
  /\ UNCHANGED <<queue, runs, finished, counter>>
  /\ UNCHANGED callerVars

\* A break that leaks the guard: the thread ends with the Mutex still locked.
Worker_break_keeps_lock(w) ==
  /\ wpc[w] = "break"
  /\ wpc' = [wpc EXCEPT ![w] = "terminated"]
  /\ UNCHANGED <<lock, poisoned, queue, cur, runs, finished, counter>>
  /\ UNCHANGED callerVars

\* A Terminate arm without the break: the worker goes round the loop again.
Worker_break_continues(w) ==
  /\ wpc[w] = "break"
  /\ lock' = Unlocked
  /\ wpc' = [wpc EXCEPT ![w] = "loop"]
  /\ UNCHANGED <<poisoned, queue, cur, runs, finished, counter>>
  /\ UNCHANGED callerVars

\* Message::Terminate => break: the guard is dropped and the thread ends.
Worker_break(w) ==
  /\ wpc[w] = "break"
  /\ lock' = Unlocked
  /\ wpc' = [wpc EXCEPT ![w] = "terminated"]
  /\ UNCHANGED <<poisoned, queue, cur, runs, finished, counter>>
  /\ UNCHANGED callerVars

Worker_loop(w) ==
  \/ Worker_try_lock(w)
  \/ Worker_recv(w)
  \/ Worker_call_returns(w)
  \/ Worker_call_panics(w)
  \/ Worker_break(w)

Next ==
  \/ \E n \in 0..MaxWorkers : ThreadPool_new(n)
  \/ \E p \in BOOLEAN : ThreadPool_execute(p)
  \/ Drop_begin
  \/ Drop_send
  \/ Drop_join
  \/ \E w \in Workers : Worker_try_lock(w)
  \/ \E w \in Workers : Worker_recv(w)
  \/ \E w \in Workers : Worker_call_returns(w)
  \/ \E w \in Workers : Worker_call_panics(w)
  \/ \E w \in Workers : Worker_break(w)

Spec == Init /\ [][Next]_vars

\* Every thread that can take a step is scheduled eventually; the caller is not
\* obliged to call execute or to drop the pool, but once inside drop it goes on.
FairSpec ==
  /\ Spec
  /\ \A w \in 1..MaxWorkers : WF_vars(w \in Workers /\ Worker_loop(w))
  /\ WF_vars(Drop_send)
  /\ WF_vars(Drop_join)

\* The Sender goes away without drop having run, before any Terminate was sent.
\* No operation of the crate does this (RecvNeverDisconnected below); it is the
\* event the Err arm of recv in the worker loop answers to.
Sender_closed ==
  /\ callerPc = "ready"
  /\ callerPc' = "sender_closed"
  /\ sender' = "dropped"
  /\ UNCHANGED <<count, thread, submitted, panicking, sent, joinIdx, queue>>
  /\ UNCHANGED workerVars

NextClosed == Next \/ Sender_closed

SpecClosed == Init /\ [][NextClosed]_vars

FairSpecClosed ==
  /\ SpecClosed
  /\ \A w \in 1..MaxWorkers : WF_vars(w \in Workers /\ Worker_loop(w))
  /\ WF_vars(Drop_send)
  /\ WF_vars(Drop_join)

----------------------------------------------------------------------------
\* C1: when drop has returned, every closure handed to execute has been called
\* exactly once and has returned, no worker is still inside a call, and the
\* counter the closures add 1 to equals the number of closures submitted.
C1_AllTasksRunExactlyOnce ==
  callerPc = "done" =>
    /\ \A t \in 1..submitted : runs[t] = 1 /\ t \in finished
    /\ \A t \in Tasks : t > submitted => runs[t] = 0
    /\ \A w \in Workers : wpc[w] # "call" /\ cur[w] = 0
    /\ counter = submitted

C1_Witness ==
  callerPc = "done" /\ count >= 2 /\ submitted = MaxTasks /\ counter = MaxTasks

\* C2: when drop has returned, every one of the `count` worker threads has left
\* its loop on Terminate and its JoinHandle has been taken and joined.
C2_AllWorkersJoined ==
  callerPc = "done" =>
    /\ count >= 1
    /\ \A w \in Workers : wpc[w] = "terminated" /\ thread[w] = "None"
    /\ joinIdx = count + 1

C2_Witness ==
  callerPc = "done" /\ count = MaxWorkers /\ \A w \in Workers : thread[w] = "None"

\* C3: under fair scheduling, once drop has been entered and no submitted closure
\* panics, drop eventually has sent its `count` Terminates, every worker has
\* left its loop, every join has completed and drop has returned.
C3_ShutdownTerminates ==
  (callerPc = "drop_send" /\ panicking = {}) ~>
    (/\ callerPc = "done"
     /\ sent = count
     /\ queue = << >>
     /\ \A w \in Workers : wpc[w] = "terminated")

C3_Witness ==
  callerPc = "done" /\ sent = count /\ count >= 2 /\ submitted >= 1 /\ lock = Unlocked

\* C4: under fair scheduling, every closure handed to execute when no earlier
\* closure panics is eventually taken from the channel and called by a worker,
\* whether or not drop is ever entered.
C4_SubmittedTaskEventuallyRuns ==
  \A t \in Tasks :
    (t <= submitted /\ panicking \cap (1..(t - 1)) = {}) ~> (runs[t] >= 1)

C4_Witness ==
  /\ callerPc = "ready"
  /\ submitted = MaxTasks
  /\ queue = << >>
  /\ \A t \in Tasks : runs[t] = 1

\* C5: execution is not serialized behind the receive lock: whenever one worker
\* is inside a call, a Work message is next in the channel and another worker is
\* at the top of its loop, that worker's try_lock succeeds, so that it can go on
\* to call the next closure alongside the first.
C5_ExecutionNotSerialized ==
  \A w \in Workers : \A v \in Workers :
    (/\ w # v
     /\ wpc[w] = "call"
     /\ wpc[v] = "loop"
     /\ ~poisoned
     /\ queue # << >>
     /\ Head(queue) # Terminate)
    => TryLockOk(v)

\* What the code does instead: at most one worker is inside a call at a time.
AtMostOneCall == Cardinality({w \in Workers : wpc[w] = "call"}) <= 1

\* Why C6 to C8 fail: once the Mutex is poisoned it stays poisoned and nothing is
\* received from the channel any more.
PoisonIsFinal ==
  [][poisoned =>
       /\ poisoned'
       /\ runs' = runs
       /\ Len(queue') >= Len(queue)
       /\ SubSeq(queue', 1, Len(queue)) = queue]_vars

\* The Sender is dropped only when no worker is blocked in recv, so recv never
\* returns Err in a reachable state.
RecvNeverDisconnected ==
  sender = "dropped" => \A w \in Workers : wpc[w] \notin {"recv", "call", "break"}

\* C6: under fair scheduling, when at most one of the submitted closures panics,
\* every other submitted closure, before or after it, is eventually called
\* exactly once and returns (behaviours in which a second panicking closure is
\* submitted are outside the claim).
C6_OtherTasksRunDespitePanic ==
  \A t \in Tasks :
    (t <= submitted /\ t \notin panicking)
      ~> ((t \in finished /\ runs[t] = 1) \/ Cardinality(panicking) >= 2)

\* C7: under fair scheduling, once a closure has panicked inside a worker, a drop
\* that has been entered eventually returns, with every worker joined.
C7_ShutdownCompletesDespitePanic ==
  (callerPc \in {"drop_send", "drop_join"} /\ \E w \in Workers : wpc[w] = "panicked")
    ~> (callerPc = "done")

\* C8: a panic of a closure stays inside the worker: no call of execute made
\* before drop panics in its caller.
C8_ExecuteSucceedsAfterPanic ==
  callerPc # "execute_panicked"

\* C9: ThreadPool::new(0) fails and leaves no pool, no channel and no worker
\* thread; ThreadPool::new(n) with n >= 1 succeeds with exactly n worker threads,
\* all alive as it returns, and the number of workers never changes afterwards.
C9_Inv ==
  /\ callerPc # "start" => (count = 0 <=> callerPc = "new_panicked")
  /\ callerPc = "new_panicked" =>
        /\ sender = "none"
        /\ wpc = << >>
        /\ thread = << >>
        /\ queue = << >>
  /\ callerPc \notin {"start", "new_panicked"} =>
        /\ count >= 1
        /\ DOMAIN wpc = 1..count
        /\ DOMAIN thread = 1..count

C9_Step ==
  /\ callerPc = "start" /\ callerPc' = "ready" =>
        /\ sender' = "open"
        /\ \A w \in 1..count' : wpc'[w] = "loop" /\ thread'[w] = "Some"
  /\ callerPc # "start" => count' = count

C9_Construction == []C9_Inv /\ [][C9_Step]_vars

C9_Witness ==
  callerPc = "new_panicked" /\ count = 0 /\ sender = "none"

C10_Inv ==
  /\ sent <= count
  /\ callerPc = "done" => sent = count

C10_Step ==
  /\ callerPc = "done" => UNCHANGED vars
  /\ sent' >= sent
  /\ \A w \in Workers : thread[w] = "None" => thread'[w] = "None"

C11_Inv ==
  /\ \A t \in Tasks : t > submitted => runs[t] = 0
  /\ \A i \in 1..Len(queue) : queue[i] <= submitted

C11_Step ==
  callerPc \in {"drop_send", "drop_join", "done", "drop_panicked"} =>
    /\ submitted' = submitted
    /\ panicking' = panicking
    /\ \A i \in 1..Len(queue') : queue'[i] # Terminate =>
          \E j \in 1..Len(queue) : queue[j] = queue'[i]

C12_NoLockWhileExecuting ==
  \A w \in Workers : wpc[w] = "call" => lock # w

\* C13: at most one worker is in recv at a time, and a worker in recv (or
\* holding the Message it has just received) is the holder of the lock.
C13_RecvMutualExclusion ==
  /\ Cardinality({w \in Workers : wpc[w] = "recv"}) <= 1
  /\ \A w \in Workers : wpc[w] \in {"recv", "break"} => lock = w

C13_Witness ==
  \E w \in Workers : \E v \in Workers :
    /\ w # v
    /\ wpc[w] = "recv"
    /\ wpc[v] = "loop"
    /\ lock = w
    /\ queue # << >>

\* Where a Message is: how often it is in the channel, how many workers hold it
\* inside a call, and whether its call has ended (returned or panicked).
InChannel(m) == Cardinality({i \in 1..Len(queue) : queue[i] = m})

Held(t) == Cardinality({w \in Workers : cur[w] = t})

Ended(t) ==
  IF t \in finished \/ (t \in panicking /\ runs[t] >= 1 /\ Held(t) = 0) THEN 1 ELSE 0

\* C14: every submitted Work message is in exactly one place: in the channel,
\* held by exactly one worker that is calling it, or ended; it has been received
\* at most once; and the channel loses a Message only to a worker in recv, which
\* takes the oldest one.
C14_Inv ==
  \A t \in Tasks :
    IF t <= submitted
      THEN /\ InChannel(t) + Held(t) + Ended(t) = 1
           /\ runs[t] = Held(t) + Ended(t)
      ELSE InChannel(t) = 0 /\ Held(t) = 0 /\ runs[t] = 0 /\ t \notin finished

C14_Step ==
  queue' # queue /\ Len(queue') <= Len(queue) =>
    /\ queue' = Tail(queue)
    /\ \E w \in Workers :
          /\ wpc[w] = "recv"
          /\ wpc'[w] \in {"call", "break"}
          /\ Head(queue) # Terminate => cur'[w] = Head(queue)

Consumed == Cardinality({w \in Workers : wpc[w] \in {"break", "terminated"}})

\* C15: no Terminate is sent or in the channel before drop is entered; drop
\* never sends more than `count` and has sent exactly `count` once its first
\* loop is through; every Terminate sent is either still in the channel or was
\* consumed by one worker of its own, which leaves the loop for good; and when
\* drop has returned none is left in the channel.
C15_Inv ==
  /\ callerPc \in {"start", "new_panicked", "ready", "execute_panicked"} =>
        sent = 0 /\ InChannel(Terminate) = 0
  /\ sent <= count
  /\ callerPc \in {"drop_join", "done"} => sent = count
  /\ InChannel(Terminate) + Consumed = sent
  /\ callerPc = "done" => InChannel(Terminate) = 0 /\ Consumed = count

C15_Step ==
  \A w \in Workers :
    /\ wpc[w] = "break" => wpc'[w] \in {"break", "terminated"}
    /\ wpc[w] = "terminated" => wpc'[w] = "terminated"

C16_Inv ==
  /\ \A i \in 1..Len(queue) : \A j \in 1..Len(queue) :
        i < j =>
          /\ queue[i] = Terminate => queue[j] = Terminate
          /\ queue[j] # Terminate => queue[i] < queue[j]
  /\ Consumed >= 1 =>
        /\ \A i \in 1..Len(queue) : queue[i] = Terminate
        /\ \A t \in 1..submitted : runs[t] >= 1

C16_Step ==
  \A t \in Tasks : runs'[t] > runs[t] => \A u \in 1..(t - 1) : runs[u] >= 1

C16_TerminateAfterWork == []C16_Inv /\ [][C16_Step]_vars

C16_Witness ==
  /\ submitted = MaxTasks
  /\ \E w \in Workers : wpc[w] = "break"
  /\ \A t \in Tasks : runs[t] = 1

\* C17: a worker holds a received closure exactly while it is inside the call;
\* it receives only from recv and with no closure in hand; it leaves a call only
\* when the closure has returned or panicked; and a worker that has left its
\* loop never takes another step.
C17_Inv ==
  \A w \in Workers : cur[w] # 0 <=> wpc[w] = "call"

C17_Step ==
  \A w \in Workers :
    /\ wpc'[w] # wpc[w] /\ wpc'[w] \in {"call", "break"} =>
          wpc[w] = "recv" /\ cur[w] = 0
    /\ wpc[w] = "call" =>
          \/ wpc'[w] = "call" /\ cur'[w] = cur[w]
          \/ wpc'[w] = "loop" /\ cur[w] \in finished'
          \/ wpc'[w] = "panicked" /\ cur[w] \in panicking
    /\ wpc[w] \in {"terminated", "panicked"} => wpc'[w] = wpc[w] /\ cur'[w] = 0

C17_WorkerStateMachine == []C17_Inv /\ [][C17_Step]_vars

C17_Witness ==
  \E w \in Workers : \E v \in Workers :
    wpc[w] = "call" /\ cur[w] >= 2 /\ wpc[v] = "loop" /\ finished # {}

\* C18: under fair scheduling, when the Sender was closed before any Terminate
\* was sent, every worker thread eventually ends instead of going round its
\* loop for ever.
C18_WorkersStopWhenSenderClosed ==
  \A w \in 1..MaxWorkers :
    (callerPc = "sender_closed" /\ w \in Workers /\ Alive(w))
      ~> ~(w \in Workers /\ Alive(w))

\* C19: the lock is never held by a worker thread that has ended, so that with
\* one worker terminated the others can still take the lock.
C19_LockNotHeldByTerminated ==
  lock # Unlocked => lock \in Workers /\ wpc[lock] \in {"recv", "call", "break"}

C19_Witness ==
  /\ \E w \in Workers : wpc[w] = "terminated"
  /\ lock # Unlocked
  /\ wpc[lock] = "break"

====
